---------------------------- MODULE Spec2Model ----------------------------
(***************************************************************************)
(* A model of plaso's Java IDX parser (plaso/parsers/java_idx.py).         *)
(*                                                                         *)
(* The file is a sequence of bytes; the parser's structures are tables of  *)
(* fields, parsed field by field as construct does; JavaIDXParser.Parse is *)
(* a state machine whose steps are the statements of the method.  A Python *)
(* local that has not been assigned yet is the empty sequence <<>>, and a  *)
(* local bound to v is <<v>>.  A Python str is the sequence of its bytes.  *)
(***************************************************************************)
EXTENDS Integers, Sequences, FiniteSets, TLC

VARIABLES
  input,              \* what the file was built from; whether reading it fails
  data,               \* the bytes of file_object
  pos,                \* file_object's position (0-based offset)
  pc,                 \* the statement Parse is at
  magic,              \* local magic
  section1,           \* local section1
  idx_version,        \* local idx_version
  last_modified_date, \* local last_modified_date
  url,                \* local url
  ip_address,         \* local ip_address
  http_header_count,  \* local http_header_count
  download_date,      \* local download_date
  fields_read,        \* iterations of the header loop that have completed
  result              \* how Parse ended

vars == <<input, data, pos, pc, magic, section1, idx_version,
          last_modified_date, url, ip_address, http_header_count,
          download_date, fields_read, result>>

---------------------------------------------------------------------------
(* Bounds of the model.                                                    *)

\* The most header (name, value) pairs a generated file declares.
MaxFields == 2

---------------------------------------------------------------------------
(* Byte strings the code and the generated files use.                      *)

\* 'date'
STR_date == <<100, 97, 116, 101>>
\* 'Date'
STR_Date == <<68, 97, 116, 101>>
\* 'Unknown'
STR_Unknown == <<85, 110, 107, 110, 111, 119, 110>>
\* 'http'
STR_http == <<104, 116, 116, 112>>
\* '10.7'
STR_ip == <<49, 48, 46, 55>>
\* '6.0'
STR_verstr == <<54, 46, 48>>
\* 'ns'
STR_ns == <<110, 115>>
\* 'Sun, 06 Nov 1994 08:49:37 GMT'
DATE_A == <<83, 117, 110, 44, 32, 48, 54, 32, 78, 111, 118, 32, 49, 57, 57,
            52, 32, 48, 56, 58, 52, 57, 58, 51, 55, 32, 71, 77, 84>>
\* 'Mon, 07 Nov 1994 08:49:38 GMT'
DATE_B == <<77, 111, 110, 44, 32, 48, 55, 32, 78, 111, 118, 32, 49, 57, 57,
            52, 32, 48, 56, 58, 52, 57, 58, 51, 56, 32, 71, 77, 84>>
\* 'Sun, 06 Nov 1994' (no time of day: does not match HTTP_DATE_FMT)
DATE_BAD == <<83, 117, 110, 44, 32, 48, 54, 32, 78, 111, 118, 32, 49, 57,
              57, 52>>

---------------------------------------------------------------------------
(* The structures.  A field is an unsigned big-endian integer of `width`   *)
(* bytes, or a PascalString whose length field is `width` bytes wide.      *)

UInt(name, width)   == [name |-> name, type |-> "uint", width |-> width]
Pascal(name, width) == [name |-> name, type |-> "pascal", width |-> width]

IDX_SHORT_STRUCT ==
  << UInt("busy", 1), UInt("incomplete", 1), UInt("idx_version", 4) >>

IDX_602_STRUCT ==
  << UInt("null_space", 2), UInt("shortcut", 1), UInt("content_length", 4),
     UInt("last_modified_date", 8), UInt("expiration_date", 8),
     Pascal("version_string", 2), Pascal("url", 2), Pascal("namespace", 2),
     UInt("FieldCount", 4) >>

IDX_603_SECTION1_STRUCT ==
  << UInt("null_space", 2), UInt("shortcut", 1), UInt("content_length", 4),
     UInt("last_modified_date", 8), UInt("expiration_date", 8),
     UInt("validation_date", 8), UInt("signed", 1), UInt("sec2len", 4),
     UInt("sec3len", 4), UInt("sec4len", 4) >>

\* The mutant of IDX_605_SECTION1_STRUCT: the leading field narrowed to one
\* byte instead of removed.
IDX_605_SECTION1_STRUCT_narrowed ==
  << UInt("null_space", 1), UInt("shortcut", 1), UInt("content_length", 4),
     UInt("last_modified_date", 8), UInt("expiration_date", 8),
     UInt("validation_date", 8), UInt("signed", 1), UInt("sec2len", 4),
     UInt("sec3len", 4), UInt("sec4len", 4) >>

IDX_605_SECTION1_STRUCT ==
  << UInt("shortcut", 1), UInt("content_length", 4),
     UInt("last_modified_date", 8), UInt("expiration_date", 8),
     UInt("validation_date", 8), UInt("signed", 1), UInt("sec2len", 4),
     UInt("sec3len", 4), UInt("sec4len", 4) >>

IDX_SECTION2_STRUCT ==
  << Pascal("url", 4), Pascal("ip_address", 4), UInt("FieldCount", 4) >>

JAVA_READUTF_STRING == << Pascal("string", 2) >>

\* file_object.seek(128): the static offset of section 2.
SECTION2_OFFSET == 128

---------------------------------------------------------------------------
(* construct's parsing of a stream: bytes d, position p (0-based).         *)

\* The n bytes of d from offset p.
Slice(d, p, n) == [j \in 1..n |-> d[p + j]]

\* An unsigned big-endian integer from a sequence of bytes.
RECURSIVE UBInt(_)
UBInt(bytes) ==
  IF bytes = <<>> THEN 0
  ELSE UBInt(SubSeq(bytes, 1, Len(bytes) - 1)) * 256 + bytes[Len(bytes)]

\* Whether a read of n bytes at p is short (construct raises FieldError).
ShortRead(d, p, n) == p + n > Len(d)

ParseFailed == [ok |-> FALSE, pos |-> 0, val |-> <<>>]

\* The mutant of ParsePascal: a short read of the string's bytes returns the
\* bytes there are instead of failing.
ParsePascal_lenient(d, p, w) ==
  IF ShortRead(d, p, w) THEN ParseFailed
  ELSE LET n     == UBInt(Slice(d, p, w))
           avail == IF ShortRead(d, p + w, n) THEN Len(d) - (p + w) ELSE n
       IN  [ok |-> TRUE, pos |-> p + w + avail, val |-> Slice(d, p + w, avail)]

\* PascalString: a length field of w bytes, then that many bytes.
ParsePascal(d, p, w) ==
  IF ShortRead(d, p, w) THEN ParseFailed
  ELSE LET n == UBInt(Slice(d, p, w))
       IN  IF ShortRead(d, p + w, n) THEN ParseFailed
           ELSE [ok |-> TRUE, pos |-> p + w + n, val |-> Slice(d, p + w, n)]

\* One field of a structure.
ParseField(f, d, p) ==
  IF f.type = "uint"
  THEN IF ShortRead(d, p, f.width) THEN ParseFailed
       ELSE [ok |-> TRUE, pos |-> p + f.width,
             val |-> UBInt(Slice(d, p, f.width))]
  ELSE ParsePascal(d, p, f.width)

\* Struct.parse_stream from field k on; acc holds the fields parsed so far.
RECURSIVE ParseFrom(_, _, _, _, _)
ParseFrom(S, k, d, p, acc) ==
  IF k > Len(S) THEN [ok |-> TRUE, pos |-> p, val |-> acc]
  ELSE LET r == ParseField(S[k], d, p)
       IN  IF ~r.ok THEN ParseFailed
           ELSE ParseFrom(S, k + 1, d, r.pos, (S[k].name :> r.val) @@ acc)

\* Struct.parse_stream(file_object): [ok, pos, val], val the container.
ParseStream(S, d, p) == ParseFrom(S, 1, d, p, <<>>)

\* The offset of the field called name from the start of structure S, and
\* the size of S when all its fields are integers.
RECURSIVE SizeOfFirst(_, _)
SizeOfFirst(S, k) == IF k = 0 THEN 0 ELSE SizeOfFirst(S, k - 1) + S[k].width
FieldIndex(S, name) == CHOOSE k \in 1..Len(S) : S[k].name = name
FieldOffset(S, name) == SizeOfFirst(S, FieldIndex(S, name) - 1)
FieldNames(S) == {S[k].name : k \in 1..Len(S)}

---------------------------------------------------------------------------
(* timelib.Timestamp.FromTimeString(value.string, HTTP_DATE_FMT), with     *)
(* HTTP_DATE_FMT = "%a, %d %b %Y %H:%M:%S %Z".  The timestamp is kept as   *)
(* the broken-down time the pattern recovers.                              *)

DayNames ==
  { <<83, 117, 110>>, <<77, 111, 110>>, <<84, 117, 101>>, <<87, 101, 100>>,
    <<84, 104, 117>>, <<70, 114, 105>>, <<83, 97, 116>> }

MonthNames ==
  << <<74, 97, 110>>, <<70, 101, 98>>, <<77, 97, 114>>, <<65, 112, 114>>,
     <<77, 97, 121>>, <<74, 117, 110>>, <<74, 117, 108>>, <<65, 117, 103>>,
     <<83, 101, 112>>, <<79, 99, 116>>, <<78, 111, 118>>, <<68, 101, 99>> >>

ZoneNames == { <<71, 77, 84>>, <<85, 84, 67>> }

IsDigits(s) == \A j \in 1..Len(s) : s[j] \in 48..57

RECURSIVE Decimal(_)
Decimal(s) ==
  IF s = <<>> THEN 0
  ELSE Decimal(SubSeq(s, 1, Len(s) - 1)) * 10 + (s[Len(s)] - 48)

\* The literal characters of the pattern: ", " after the day name, spaces
\* between the parts, ":" inside the time of day.
DateShapeOk(s) ==
  /\ Len(s) = 29
  /\ SubSeq(s, 1, 3) \in DayNames
  /\ SubSeq(s, 4, 5) = <<44, 32>>
  /\ IsDigits(SubSeq(s, 6, 7))
  /\ s[8] = 32
  /\ \E m \in 1..12 : MonthNames[m] = SubSeq(s, 9, 11)
  /\ s[12] = 32
  /\ IsDigits(SubSeq(s, 13, 16))
  /\ s[17] = 32
  /\ IsDigits(SubSeq(s, 18, 19))
  /\ s[20] = 58
  /\ IsDigits(SubSeq(s, 21, 22))
  /\ s[23] = 58
  /\ IsDigits(SubSeq(s, 24, 25))
  /\ s[26] = 32
  /\ SubSeq(s, 27, 29) \in ZoneNames

FromTimeString(s) ==
  IF /\ DateShapeOk(s)
     /\ Decimal(SubSeq(s, 6, 7)) \in 1..31
     /\ Decimal(SubSeq(s, 18, 19)) \in 0..23
     /\ Decimal(SubSeq(s, 21, 22)) \in 0..59
     /\ Decimal(SubSeq(s, 24, 25)) \in 0..61
  THEN [ok |-> TRUE,
        val |-> << [year   |-> Decimal(SubSeq(s, 13, 16)),
                    month  |-> CHOOSE m \in 1..12 :
                                 MonthNames[m] = SubSeq(s, 9, 11),
                    day    |-> Decimal(SubSeq(s, 6, 7)),
                    hour   |-> Decimal(SubSeq(s, 18, 19)),
                    minute |-> Decimal(SubSeq(s, 21, 22)),
                    second |-> Decimal(SubSeq(s, 24, 25))] >>]
  ELSE [ok |-> FALSE, val |-> <<>>]

---------------------------------------------------------------------------
(* The files Parse is given: IDX files written field by field, whole or    *)
(* cut short.                                                              *)

\* v as w big-endian bytes.
RECURSIVE UBIntBytes(_, _)
UBIntBytes(v, w) ==
  IF w = 0 THEN <<>> ELSE Append(UBIntBytes(v \div 256, w - 1), v % 256)

PascalBytes(s, w) == UBIntBytes(Len(s), w) \o s

Zeros(n) == [j \in 1..n |-> 0]

RECURSIVE PairsBytes(_)
PairsBytes(fs) ==
  IF fs = <<>> THEN <<>>
  ELSE PascalBytes(fs[1].name, 2) \o PascalBytes(fs[1].value, 2)
         \o PairsBytes(Tail(fs))

MagicBytes(r) == <<r.busy, r.incomplete>> \o UBIntBytes(r.version, 4)

\* shortcut .. sec4len, as 6.03 and later write them.
Section1Bytes(r) ==
  <<1>> \o UBIntBytes(513, 4) \o UBIntBytes(r.last_modified_date, 8)
    \o UBIntBytes(2, 8) \o UBIntBytes(3, 8) \o <<1>>
    \o UBIntBytes(r.seclen, 4) \o UBIntBytes(r.seclen + 1, 4)
    \o UBIntBytes(r.seclen + 2, 4)

Section2Bytes(r) ==
  PascalBytes(r.url, 4) \o PascalBytes(r.ip_address, 4)
    \o UBIntBytes(Len(r.fields), 4) \o PairsBytes(r.fields)

Bytes602(r) ==
  MagicBytes(r) \o <<0, 0>> \o <<1>> \o UBIntBytes(513, 4)
    \o UBIntBytes(r.last_modified_date, 8) \o UBIntBytes(2, 8)
    \o PascalBytes(STR_verstr, 2) \o PascalBytes(r.url, 2)
    \o PascalBytes(STR_ns, 2) \o UBIntBytes(Len(r.fields), 4)
    \o PairsBytes(r.fields)

\* 6.03 and 6.04: two bytes before shortcut; section 2 at offset 128.
Bytes603(r) ==
  LET head == MagicBytes(r) \o <<0, 0>> \o Section1Bytes(r)
  IN  head \o Zeros(128 - Len(head)) \o Section2Bytes(r)

\* 6.05 (and whatever claims a later version): shortcut follows the magic.
Bytes605(r) ==
  LET head == MagicBytes(r) \o Section1Bytes(r)
  IN  head \o Zeros(128 - Len(head)) \o Section2Bytes(r)

\* The bytes the layout of r requires, without what may follow them.
RequiredBytes(r) ==
  IF r.version = 602 THEN Bytes602(r)
  ELSE IF r.version \in {603, 604} THEN Bytes603(r)
  ELSE Bytes605(r)

\* The whole file: the required bytes and the sections that follow.
FileBytes(r) == RequiredBytes(r) \o r.trailer

Versions == {601, 602, 603, 604, 605, 606}
FlagValues == {0, 1, 2, 255}

Pair(n, v) == [name |-> n, value |-> v]
Pairs ==
  { Pair(STR_date, DATE_A), Pair(STR_date, DATE_B), Pair(STR_date, DATE_BAD),
    Pair(STR_Date, DATE_A) }

FieldLists == UNION { [1..n -> Pairs] : n \in 0..MaxFields }
DateLists  == { [j \in 1..n |-> Pair(STR_date, DATE_A)] : n \in 0..MaxFields }

\* Two settings of what the parser does not branch on: the raw timestamp,
\* the declared section lengths, and what follows the header fields.
Variants ==
  { [last_modified_date |-> 1, seclen |-> 0, trailer |-> <<>>],
    [last_modified_date |-> 300, seclen |-> 7,
     trailer |-> PairsBytes(<< Pair(STR_date, DATE_B) >>)] }
PlainVariant == [last_modified_date |-> 1, seclen |-> 0, trailer |-> <<>>]

Record(v, b, i, var, u, ip, fs) ==
  [version |-> v, busy |-> b, incomplete |-> i,
   last_modified_date |-> var.last_modified_date, seclen |-> var.seclen,
   trailer |-> var.trailer, url |-> u, ip_address |-> ip, fields |-> fs]

\* A 6.02 file has no place for the address.
Addresses(v) == IF v = 602 THEN {<<>>} ELSE {<<>>, STR_ip}

\* Whole files of every version, with and without url, address and date.
MainRecords ==
  { Record(v, f, f, var, u, ip, fs) :
      v \in Versions, f \in {0, 1}, var \in Variants, u \in {<<>>, STR_http},
      ip \in {<<>>, STR_ip}, fs \in FieldLists }

\* Whole files with every pair of flag bytes.
FlagRecords ==
  { Record(v, b, i, PlainVariant, STR_http, STR_ip,
           << Pair(STR_date, DATE_A) >>) :
      v \in Versions, b \in FlagValues, i \in FlagValues }

\* The files that are also cut short, at every length.
CutRecords ==
  { Record(v, 0, i, PlainVariant, STR_http, STR_ip, fs) :
      v \in Versions, i \in {0, 2}, fs \in DateLists }

Input(r, n, io) ==
  [rec |-> r, length |-> n, required |-> Len(RequiredBytes(r)),
   io_error |-> io]

Inputs ==
  { Input(r, Len(FileBytes(r)), FALSE) :
      r \in { m \in MainRecords : m.ip_address \in Addresses(m.version) } }
  \cup { Input(r, Len(FileBytes(r)), io) : r \in FlagRecords, io \in BOOLEAN }
  \cup UNION { { Input(r, n, FALSE) : n \in 0..(Len(FileBytes(r)) - 1) } :
                 r \in CutRecords }

---------------------------------------------------------------------------
(* JavaIDXParser.Parse(file_object).                                       *)

Running == [status |-> "running", exc |-> "", line |-> 0, container |-> <<>>]

\* An exception of class exc leaves Parse from the given source line.
Raise(exc, line) ==
  [status |-> "raised", exc |-> exc, line |-> line, container |-> <<>>]

\* return container
Return(c) ==
  [status |-> "returned", exc |-> "", line |-> 211, container |-> <<c>>]

\* event.TimestampEvent(timestamp, description, data_type)
TimestampEvent(timestamp, desc, data_type) ==
  [timestamp |-> timestamp, timestamp_desc |-> desc, data_type |-> data_type]

\* JavaIDXEventContainer(idx_version, url, ip_address), then the Appends.
JavaIDXEventContainer(version, u, ip, events) ==
  [idx_version |-> version, url |-> u, ip_address |-> ip, events |-> events]

Init ==
  /\ input \in Inputs
  /\ data = SubSeq(FileBytes(input.rec), 1, input.length)
  /\ pos = 0
  /\ pc = "magic"
  /\ magic = <<>>
  /\ section1 = <<>>
  /\ idx_version = <<>>
  /\ last_modified_date = <<>>
  /\ url = <<>>
  /\ ip_address = <<>>
  /\ http_header_count = <<>>
  /\ download_date = <<>>
  /\ fields_read = 0
  /\ result = Running

\* Parse ends: by an exception or by its return.
Finish(r) ==
  /\ pc' = "done"
  /\ result' = r

\* Lines 140-147: the magic; an IOError of the read becomes UnableToParseFile,
\* a short read is construct's FieldError, which the except does not name.
ReadMagic ==
  /\ pc = "magic"
  /\ LET r == ParseStream(IDX_SHORT_STRUCT, data, pos)
     IN  IF input.io_error
         THEN /\ Finish(Raise("UnableToParseFile", 143))
              /\ UNCHANGED <<pos, magic, idx_version>>
         ELSE IF ~r.ok
         THEN /\ Finish(Raise("FieldError", 141))
              /\ UNCHANGED <<pos, magic, idx_version>>
         ELSE /\ magic' = <<r.val>>
              /\ idx_version' = <<r.val["idx_version"]>>
              /\ pos' = r.pos
              /\ pc' = "flags"
              /\ UNCHANGED result
  /\ UNCHANGED <<input, data, section1, last_modified_date, url, ip_address,
                 http_header_count, download_date, fields_read>>

\* The mutant of FlagsInvalid: only busy is looked at.
FlagsInvalid_busy_only(m) == m["busy"] > 1

\* Line 153: magic.busy > 1 or magic.incomplete > 1
FlagsInvalid(m) == m["busy"] > 1 \/ m["incomplete"] > 1

\* Lines 153-154.
CheckFlags ==
  /\ pc = "flags"
  /\ IF FlagsInvalid(magic[1])
     THEN Finish(Raise("UnableToParseFile", 154))
     ELSE pc' = "version" /\ UNCHANGED result
  /\ UNCHANGED <<input, data, pos, magic, section1, idx_version,
                 last_modified_date, url, ip_address, http_header_count,
                 download_date, fields_read>>

\* The mutant of Url602: the string after the url is taken for it.
Url602_namespace(s) == s["namespace"]

\* Line 164: url = section1.url
Url602(s) == s["url"]

\* Lines 161-166: a 6.02 file is one structure; the address is 'Unknown'.
Parse602 ==
  /\ pc = "version"
  /\ idx_version[1] = 602
  /\ LET r == ParseStream(IDX_602_STRUCT, data, pos)
     IN  IF ~r.ok
         THEN /\ Finish(Raise("FieldError", 162))
              /\ UNCHANGED <<pos, section1, last_modified_date, url,
                             ip_address, http_header_count>>
         ELSE /\ section1' = <<r.val>>
              /\ pos' = r.pos
              /\ last_modified_date' = <<r.val["last_modified_date"]>>
              /\ url' = <<Url602(r.val)>>
              /\ ip_address' = <<STR_Unknown>>
              /\ http_header_count' = <<r.val["FieldCount"]>>
              /\ pc' = "loop"
              /\ UNCHANGED result
  /\ UNCHANGED <<input, data, magic, idx_version, download_date, fields_read>>

\* Lines 167-169: section 1 of a 6.03 or 6.04 file.
ParseSection1_603 ==
  /\ pc = "version"
  /\ idx_version[1] \in {603, 604}
  /\ LET r == ParseStream(IDX_603_SECTION1_STRUCT, data, pos)
     IN  IF ~r.ok
         THEN /\ Finish(Raise("FieldError", 168))
              /\ UNCHANGED <<pos, section1, last_modified_date>>
         ELSE /\ section1' = <<r.val>>
              /\ pos' = r.pos
              /\ last_modified_date' = <<r.val["last_modified_date"]>>
              /\ pc' = "seek"
              /\ UNCHANGED result
  /\ UNCHANGED <<input, data, magic, idx_version, url, ip_address,
                 http_header_count, download_date, fields_read>>

\* The mutant of LastModified605: the raw field, as for the other versions.
LastModified605_raw(raw) == raw

\* Line 177: section1.last_modified_date * 1000
LastModified605(raw) == raw * 1000

\* Lines 175-177: section 1 of a 6.05 file.
ParseSection1_605 ==
  /\ pc = "version"
  /\ idx_version[1] = 605
  /\ LET r == ParseStream(IDX_605_SECTION1_STRUCT, data, pos)
     IN  IF ~r.ok
         THEN /\ Finish(Raise("FieldError", 176))
              /\ UNCHANGED <<pos, section1, last_modified_date>>
         ELSE /\ section1' = <<r.val>>
              /\ pos' = r.pos
              /\ last_modified_date' =
                   <<LastModified605(r.val["last_modified_date"])>>
              /\ pc' = "seek"
              /\ UNCHANGED result
  /\ UNCHANGED <<input, data, magic, idx_version, url, ip_address,
                 http_header_count, download_date, fields_read>>

\* Lines 161, 167, 175: no branch is taken for any other version.
NoVersionBranch ==
  /\ pc = "version"
  /\ idx_version[1] \notin {602, 603, 604, 605}
  /\ pc' = "loop"
  /\ UNCHANGED <<input, data, pos, magic, section1, idx_version,
                 last_modified_date, url, ip_address, http_header_count,
                 download_date, fields_read, result>>

\* The mutant of SeekTarget: section 2 is taken to follow section 1.
SeekTarget_relative(p) == p

\* Lines 170 and 178: where file_object.seek(128) leaves the position p.
SeekTarget(p) == SECTION2_OFFSET

\* Lines 170 and 178: file_object.seek(128)
Seek ==
  /\ pc = "seek"
  /\ pos' = SeekTarget(pos)
  /\ pc' = "section2"
  /\ UNCHANGED <<input, data, magic, section1, idx_version,
                 last_modified_date, url, ip_address, http_header_count,
                 download_date, fields_read, result>>

\* Lines 171-174 and 179-182: section 2.
ParseSection2 ==
  /\ pc = "section2"
  /\ LET r == ParseStream(IDX_SECTION2_STRUCT, data, pos)
     IN  IF ~r.ok
         THEN /\ Finish(Raise("FieldError",
                              IF idx_version[1] = 605 THEN 179 ELSE 171))
              /\ UNCHANGED <<pos, url, ip_address, http_header_count>>
         ELSE /\ pos' = r.pos
              /\ url' = <<r.val["url"]>>
              /\ ip_address' = <<r.val["ip_address"]>>
              /\ http_header_count' = <<r.val["FieldCount"]>>
              /\ pc' = "loop"
              /\ UNCHANGED result
  /\ UNCHANGED <<input, data, magic, section1, idx_version,
                 last_modified_date, download_date, fields_read>>

\* Line 188: range(0, http_header_count); a local no branch has assigned is
\* an UnboundLocalError.
EnterLoop ==
  /\ pc = "loop"
  /\ IF http_header_count = <<>>
     THEN Finish(Raise("UnboundLocalError", 188))
     ELSE pc' = "fields" /\ UNCHANGED result
  /\ UNCHANGED <<input, data, pos, magic, section1, idx_version,
                 last_modified_date, url, ip_address, http_header_count,
                 download_date, fields_read>>

\* The mutant of NextDownloadDate: a date already found is kept.
NextDownloadDate_first(old, parsed) == IF old # <<>> THEN old ELSE <<parsed>>

\* Line 192: download_date = ...; old is the local before the assignment.
NextDownloadDate(old, parsed) == <<parsed>>

\* Lines 189-193: one iteration of the loop over the header fields.
ReadHeaderField ==
  /\ pc = "fields"
  /\ fields_read < http_header_count[1]
  /\ LET field == ParseStream(JAVA_READUTF_STRING, data, pos)
         value == ParseStream(JAVA_READUTF_STRING, data, field.pos)
         date  == FromTimeString(value.val["string"])
     IN  IF ~field.ok
         THEN /\ Finish(Raise("FieldError", 189))
              /\ UNCHANGED <<pos, download_date, fields_read>>
         ELSE IF ~value.ok
         THEN /\ Finish(Raise("FieldError", 190))
              /\ UNCHANGED <<pos, download_date, fields_read>>
         ELSE IF field.val["string"] = STR_date /\ ~date.ok
         THEN /\ Finish(Raise("DateParseError", 192))
              /\ UNCHANGED <<pos, download_date, fields_read>>
         ELSE /\ pos' = value.pos
              /\ download_date' =
                   IF field.val["string"] = STR_date
                   THEN NextDownloadDate(download_date, date.val[1])
                   ELSE download_date
              /\ fields_read' = fields_read + 1
              /\ UNCHANGED <<pc, result>>
  /\ UNCHANGED <<input, data, magic, section1, idx_version,
                 last_modified_date, url, ip_address, http_header_count>>

\* The mutant of UrlMissing: only the url is looked at.
UrlMissing_url_only(u, ip) == u = <<>>

\* Line 195: not url or not ip_address
UrlMissing(u, ip) == u = <<>> \/ ip = <<>>

\* Lines 195-197, once the loop has run http_header_count times.
CheckUrl ==
  /\ pc = "fields"
  /\ fields_read = http_header_count[1]
  /\ IF UrlMissing(url[1], ip_address[1])
     THEN Finish(Raise("UnableToParseFile", 196))
     ELSE pc' = "container" /\ UNCHANGED result
  /\ UNCHANGED <<input, data, pos, magic, section1, idx_version,
                 last_modified_date, url, ip_address, http_header_count,
                 download_date, fields_read>>

\* Lines 199-211: the container and its two events; download_date is unbound
\* when no field was called 'date'.
BuildContainer ==
  /\ pc = "container"
  /\ IF download_date = <<>>
     THEN Finish(Raise("UnboundLocalError", 207))
     ELSE Finish(Return(JavaIDXEventContainer(idx_version[1], url[1],
            ip_address[1],
            << TimestampEvent(last_modified_date[1], "File Hosted Date",
                              "java:download:idx"),
               TimestampEvent(download_date[1], "FILE_DOWNLOADED",
                              "java:download:idx") >>)))
  /\ UNCHANGED <<input, data, pos, magic, section1, idx_version,
                 last_modified_date, url, ip_address, http_header_count,
                 download_date, fields_read>>

Next ==
  \/ ReadMagic
  \/ CheckFlags
  \/ Parse602
  \/ ParseSection1_603
  \/ ParseSection1_605
  \/ NoVersionBranch
  \/ Seek
  \/ ParseSection2
  \/ EnterLoop
  \/ ReadHeaderField
  \/ CheckUrl
  \/ BuildContainer

Spec == Init /\ [][Next]_vars

---------------------------------------------------------------------------
(* What the properties speak of.                                           *)

Done     == pc = "done"
Returned == result.status = "returned"
TheContainer == result.container[1]

SupportedVersions == {602, 603, 604, 605}

\* The header as the bytes of the file give it.
HeaderReadable == ~input.io_error /\ Len(data) >= 6
HeaderBusy       == data[1]
HeaderIncomplete == data[2]
HeaderVersion    == UBInt(Slice(data, 2, 4))

\* The kinds of failure, by the exception that leaves Parse and its line.
IsFormatError       == result.status = "raised"
                         /\ result.exc = "UnableToParseFile" /\ result.line = 154
IsFieldMissingError == result.status = "raised"
                         /\ result.exc = "UnableToParseFile" /\ result.line = 196
IsTruncatedInputError == result.status = "raised" /\ result.exc = "FieldError"
IsUnableToParse     == result.status = "raised"
                         /\ result.exc = "UnableToParseFile"

\* The values of the fields called 'date', in the order of the file.
DateValues(fs) ==
  LET ds == SelectSeq(fs, LAMBDA f : f.name = STR_date)
  IN  [j \in 1..Len(ds) |-> ds[j].value]

\* A whole file of a supported version with url and address, whose dates,
\* if any, match the pattern.
WholeValidRecord ==
  /\ ~input.io_error
  /\ input.length >= input.required
  /\ input.rec.busy <= 1 /\ input.rec.incomplete <= 1
  /\ input.rec.version \in SupportedVersions
  /\ input.rec.url # <<>>
  /\ input.rec.version # 602 => input.rec.ip_address # <<>>
  /\ \A j \in 1..Len(DateValues(input.rec.fields)) :
       FromTimeString(DateValues(input.rec.fields)[j]).ok

\* The same file cut to fewer bytes than its layout requires.
TruncatedValidRecord ==
  /\ ~input.io_error
  /\ input.length < input.required
  /\ input.rec.busy <= 1 /\ input.rec.incomplete <= 1
  /\ input.rec.version \in SupportedVersions
  /\ input.rec.url # <<>>
  /\ input.rec.version # 602 => input.rec.ip_address # <<>>
  /\ \A j \in 1..Len(DateValues(input.rec.fields)) :
       FromTimeString(DateValues(input.rec.fields)[j]).ok

\* Every read of the structures succeeded and the header loop ran to its end.
AllReadsSucceeded ==
  /\ http_header_count # <<>>
  /\ fields_read = http_header_count[1]

---------------------------------------------------------------------------
(* The properties.                                                         *)

\* C1: with a readable header and both flags at most 1, a formatVersion
\* outside 602..605 ends Parse in the parser's unable-to-parse failure
\* (UnsupportedVersionError), never in success or another kind of failure.
C1_UnsupportedVersionRejected ==
  (Done /\ HeaderReadable /\ HeaderBusy <= 1 /\ HeaderIncomplete <= 1
     /\ HeaderVersion \notin SupportedVersions)
    => IsUnableToParse

\* C2: a whole valid record with no field called 'date' ends Parse in
\* success, with no download timestamp in what is returned.
C2_NoDateFieldSucceeds ==
  (Done /\ WholeValidRecord /\ DateValues(input.rec.fields) = <<>>)
    => /\ Returned
       /\ \A k \in 1..Len(TheContainer.events) :
            TheContainer.events[k].timestamp_desc # "FILE_DOWNLOADED"

\* C3: with six header bytes and busy > 1 or incomplete > 1, Parse ends in
\* FormatError whatever the version and the rest of the file; nothing after
\* the header has been read then, the version is only looked at with both
\* flags at most 1, and every success has both flags in {0, 1}.
C3_FlagsRejectedFirst ==
  /\ (Done /\ HeaderReadable /\ (HeaderBusy > 1 \/ HeaderIncomplete > 1))
       => (IsFormatError /\ pos = 6 /\ section1 = <<>> /\ url = <<>>
             /\ http_header_count = <<>>)
  /\ pc \in {"version", "seek", "section2", "loop", "fields", "container"}
       => (HeaderBusy \in {0, 1} /\ HeaderIncomplete \in {0, 1})
  /\ Returned => (HeaderBusy \in {0, 1} /\ HeaderIncomplete \in {0, 1})

C3_Witness ==
  /\ Done /\ HeaderReadable
  /\ HeaderBusy <= 1 /\ HeaderIncomplete > 1
  /\ HeaderVersion \notin SupportedVersions
  /\ input.length < input.required
  /\ IsFormatError

\* C4: a valid record cut to fewer bytes than its layout requires ends
\* Parse in the short-read failure (TruncatedInputError), wherever the cut
\* is; no record is returned and no other kind of failure is raised.
C4_TruncationIsShortRead ==
  (Done /\ TruncatedValidRecord)
    => (IsTruncatedInputError /\ result.container = <<>>)

C4_Witness ==
  /\ Done /\ TruncatedValidRecord
  /\ input.rec.version \in {603, 604, 605}
  /\ Len(data) > SECTION2_OFFSET
  /\ fields_read = 1
  /\ IsTruncatedInputError /\ result.line = 190

\* C5: when every read succeeded and the url or the address is empty, Parse
\* ends in FieldMissingError and returns nothing; a returned record has a
\* non-empty url and a non-empty address.
C5_EmptyUrlOrAddressRejected ==
  /\ (Done /\ AllReadsSucceeded /\ (url[1] = <<>> \/ ip_address[1] = <<>>))
       => (IsFieldMissingError /\ result.container = <<>>)
  /\ Returned => (TheContainer.url # <<>> /\ TheContainer.ip_address # <<>>)

C5_Witness ==
  /\ Done /\ AllReadsSucceeded
  /\ url[1] # <<>> /\ ip_address[1] = <<>>
  /\ download_date # <<>>
  /\ IsFieldMissingError

\* C6: the hosted timestamp of a returned 605 record is the raw
\* last_modified_date of the file times 1000; for 602, 603 and 604 it is the
\* raw field unchanged.
C6_LastModifiedScaling ==
  Returned =>
    TheContainer.events[1].timestamp =
      IF TheContainer.idx_version = 605
      THEN input.rec.last_modified_date * 1000
      ELSE input.rec.last_modified_date

C6_Witness ==
  /\ Returned
  /\ TheContainer.idx_version = 605
  /\ input.rec.last_modified_date = 300
  /\ TheContainer.events[1].timestamp = 300000

\* C7: for 603, 604 and 605 section 2 is read from offset 128: the position
\* is 128 when its first byte is read, and url, address and field count are
\* the ones the bytes from offset 128 on spell, whatever sec2len, sec3len and
\* sec4len say; a 602 file is never sought in.
C7_Section2AtOffset128 ==
  /\ pc = "section2" => (pos = 128 /\ idx_version[1] \in {603, 604, 605})
  /\ (idx_version # <<>> /\ idx_version[1] \in {603, 604, 605}
        /\ http_header_count # <<>>)
       => LET ulen == UBInt(Slice(data, 128, 4))
              alen == UBInt(Slice(data, 132 + ulen, 4))
          IN  /\ url[1] = Slice(data, 132, ulen)
              /\ ip_address[1] = Slice(data, 136 + ulen, alen)
              /\ http_header_count[1] =
                   UBInt(Slice(data, 136 + ulen + alen, 4))
              /\ url[1] = input.rec.url
              /\ ip_address[1] = input.rec.ip_address
  /\ (idx_version # <<>> /\ idx_version[1] = 602)
       => pc \notin {"seek", "section2"}

C7_Witness ==
  /\ pc = "loop"
  /\ idx_version[1] \in {603, 604, 605}
  /\ section1[1]["sec2len"] = 7 /\ section1[1]["sec3len"] = 8
  /\ url[1] = STR_http

\* C8: a returned 602 record has the address 'Unknown' and the url that is
\* written inline in the file.
C8_Revision602Address ==
  (Returned /\ TheContainer.idx_version = 602)
    => /\ TheContainer.ip_address = STR_Unknown
       /\ TheContainer.url = input.rec.url

C8_Witness ==
  /\ Returned
  /\ TheContainer.idx_version = 602
  /\ TheContainer.url = STR_http

\* C9 as stated: exactly headerFieldCount pairs are read, and the download
\* timestamp of the returned record is parsed from the FIRST pair called
\* 'date'.
C9_FirstDateWins ==
  Returned =>
    /\ fields_read = Len(input.rec.fields)
    /\ TheContainer.events[2].timestamp =
         FromTimeString(DateValues(input.rec.fields)[1]).val[1]

\* C9 as amended: exactly headerFieldCount pairs are read (what follows
\* them is not), and the download timestamp of the returned record is parsed
\* from the LAST pair called 'date'.
C9_LastDateWins ==
  Returned =>
    /\ fields_read = http_header_count[1]
    /\ fields_read = Len(input.rec.fields)
    /\ pos = input.required
    /\ LET ds == DateValues(input.rec.fields)
       IN  TheContainer.events[2].timestamp =
             FromTimeString(ds[Len(ds)]).val[1]

C9_Witness ==
  /\ Returned
  /\ input.rec.fields = << Pair(STR_date, DATE_A), Pair(STR_date, DATE_B) >>
  /\ input.rec.trailer # <<>>
  /\ TheContainer.events[2].timestamp.second = 38

\* Once Parse has read section 1 of a 605 file: the 605 table is the 603/604
\* table without its first field, every field of it lies k bytes earlier than
\* in 603/604, and the values Parse holds are the ones the bytes of the file
\* spell at those offsets (section 1 starts after the 6 bytes of the magic).
LayoutShiftedBy(k) ==
  (pc = "seek" /\ idx_version[1] = 605)
    => /\ IDX_605_SECTION1_STRUCT = Tail(IDX_603_SECTION1_STRUCT)
       /\ \A j \in 1..Len(IDX_605_SECTION1_STRUCT) :
            LET f == IDX_605_SECTION1_STRUCT[j]
            IN  /\ FieldOffset(IDX_605_SECTION1_STRUCT, f.name) =
                     FieldOffset(IDX_603_SECTION1_STRUCT, f.name) - k
                /\ section1[1][f.name] =
                     UBInt(Slice(data,
                       6 + FieldOffset(IDX_603_SECTION1_STRUCT, f.name) - k,
                       f.width))

\* C10 as stated: each field common to both layouts lies exactly ONE byte
\* earlier in 605 than in 603/604.
C10_ShiftedByOne == LayoutShiftedBy(1)

\* C10 as amended: the 605 layout is the 603/604 layout without the two-byte
\* null_space; the common fields keep their order and each lies exactly TWO
\* bytes earlier.
C10_ShiftedByTwo == LayoutShiftedBy(2)

C10_Witness ==
  /\ pc = "seek"
  /\ idx_version[1] = 605
  /\ section1[1]["content_length"] = 513
  /\ section1[1]["last_modified_date"] = 300

=============================================================================
